---------------------------- MODULE Spec2Model ----------------------------
(***************************************************************************)
(* Model of the product pages (app/routes/home.tsx, app/routes/about.tsx)  *)
(* and of the MultiSelect widget they render (the two widget sources       *)
(* part_000 and part_001).                                                 *)
(*                                                                         *)
(* One behaviour is one page instance: a page (home or about) mounted with *)
(* one of the widget sources.  Every event handler is one action; the      *)
(* React re-render that follows it (state updaters, fresh props, the       *)
(* widget's value-sync effect) is the action Render, which is the only     *)
(* action enabled while a re-render is due.                                *)
(*                                                                         *)
(* JavaScript values: strings are TLA+ strings, the value undefined is the *)
(* string "undefined", booleans carried on option objects are "true" and   *)
(* "false" (an absent field reads as "undefined").                         *)
(*                                                                         *)
(* Environment: the remote catalogue is fixed for the lifetime of a page;  *)
(* every request either returns it or fails.  Product ids are distinct and *)
(* titles are non-empty.                                                   *)
(***************************************************************************)
EXTENDS Integers, Sequences, FiniteSets, TLC

VARIABLES
    page,             \* "home" | "about": the route component that is mounted
    widgetSource,     \* "part_000" | "part_001": the MultiSelect source in use
    catalog,          \* the product list the remote endpoint serves
    products,         \* page state: useState<Product[]>([])
    options,          \* the option objects of the current render (about: the
                      \* productOptions state; home: the derived productOptions)
    queued,           \* about: the setProductOptions call waiting for the render
    selectedProducts, \* page selection (home: useState; about: watch("products"))
    loading,          \* page state: useState(false)
    errors,           \* about: formState.errors.products?.message
    pending,          \* number of fetchProducts calls awaiting their response
    selectedValues,   \* widget state: useState(value || defaultValue)
    isPopoverOpen,    \* widget state: useState(false)
    dirty,            \* a re-render is due
    ev,               \* the event whose handler ran and whose re-render is due
    calls,            \* the arguments of the onValueChange calls of that event
    log               \* ids toggled so far (kept by ToggleSpec only)

vars == <<page, widgetSource, catalog, products, options, queued,
          selectedProducts, loading, errors, pending, selectedValues,
          isPopoverOpen, dirty, ev, calls, log>>

-----------------------------------------------------------------------------
(* Bounds *)

MaxProducts == 5   \* the catalogue holds 0..MaxProducts products
MaxPending == 2    \* at most this many requests are awaited at once
MaxToggles == 4    \* ToggleSpec: length of a toggle sequence

(* Program constants *)

maxCount == 3

Undefined == "undefined"

RequiredMessage == "Please select at least one product."

NoError == ""

-----------------------------------------------------------------------------
(* Data *)

\* product.id.toString() is ToString of the module TLC

Titles == <<"A", "B", "C", "D", "E", "F", "G", "H", "I">>

\* one element of data.products
Product(n) == [id |-> n, title |-> Titles[n]]

\* the response body's products array for a catalogue of k products
Catalog(k) == [n \in 1..k |-> Product(n)]

\* home.tsx: products.map(product => ({ value, label }))
HomeOption(product) ==
    [value |-> ToString(product.id),
     label |-> product.title,
     id |-> Undefined,
     productName |-> Undefined,
     isChecked |-> Undefined,
     isSelectedForProductBenefit |-> Undefined]

\* about.tsx: data.products.map(product => ({ id, productName,
\* isSelectedForProductBenefit: true }))
AboutOption(product) ==
    [value |-> Undefined,
     label |-> Undefined,
     id |-> ToString(product.id),
     productName |-> product.title,
     isChecked |-> Undefined,
     isSelectedForProductBenefit |-> "true"]

\* home.tsx: productOptions = products.map(...)
HomeOptions(prods) == [i \in 1..Len(prods) |-> HomeOption(prods[i])]

\* about.tsx: options = data.products.map(...)
AboutOptions(prods) == [i \in 1..Len(prods) |-> AboutOption(prods[i])]

\* Array.prototype.includes
Includes(s, x) == \E i \in 1..Len(s) : s[i] = x

\* Array.prototype.filter((v) => v !== x)
FilterOut(s, x) == SelectSeq(s, LAMBDA v : v # x)

\* Array.prototype.slice(0, n)
Slice(s, n) == SubSeq(s, 1, IF Len(s) < n THEN Len(s) ELSE n)

\* JavaScript truthiness of a flag value
Truthy(f) == f = "true"

\* JavaScript !f
Not(f) == IF Truthy(f) THEN "false" ELSE "true"

Bool(b) == IF b THEN "true" ELSE "false"

\* options.map((option) => option.id)
OptionIds(opts) == [i \in 1..Len(opts) |-> opts[i].id]

-----------------------------------------------------------------------------
(* The widget's selection flag: isChecked in part_000,                     *)
(* isSelectedForProductBenefit in part_001.                                *)

Flag(option) ==
    IF widgetSource = "part_000" THEN option.isChecked
    ELSE option.isSelectedForProductBenefit

SetFlag(option, f) ==
    IF widgetSource = "part_000" THEN [option EXCEPT !.isChecked = f]
    ELSE [option EXCEPT !.isSelectedForProductBenefit = f]

\* options.every((option) => option.<flag>)
AllChecked(opts) == \A i \in 1..Len(opts) : Truthy(Flag(opts[i]))

\* a toggle that puts a newly selected id in front
NewSelectedValuesPrepend(sel, id) ==
    IF Includes(sel, id) THEN FilterOut(sel, id) ELSE <<id>> \o sel

\* a toggle that never removes
NewSelectedValuesAppendOnly(sel, id) == Append(sel, id)

\* handleToggleOption: newSelectedValues
NewSelectedValues(sel, id) ==
    IF Includes(sel, id) THEN FilterOut(sel, id) ELSE Append(sel, id)

\* handleToggleOption: options.forEach(flip the flag of the options whose id is id)
FlipFlags(opts, id) ==
    [i \in 1..Len(opts) |->
        IF opts[i].id = id THEN SetFlag(opts[i], Not(Flag(opts[i]))) ELSE opts[i]]

\* handleClear / handleToggleAll: options.forEach(option.<flag> = f)
SetAllFlags(opts, f) == [i \in 1..Len(opts) |-> SetFlag(opts[i], f)]

-----------------------------------------------------------------------------
(* The page side *)

\* schema: z.array(z.string()).min(1, "Please select at least one product.")
Validate(value) == IF Len(value) >= 1 THEN NoError ELSE RequiredMessage

NoQueue == [kind |-> "none", arg |-> <<>>]

\* about.tsx handleValueChange: prevOptions.map(option => ({ ...option,
\* isSelectedForProductBenefit: value.includes(option.id) }))
MarkSelected(prevOptions, value) ==
    [i \in 1..Len(prevOptions) |->
        [prevOptions[i] EXCEPT
            !.isSelectedForProductBenefit = Bool(Includes(value, prevOptions[i].id))]]

\* the array find(...)?.title yields for id, or undefined
TitleOf(prods, id) ==
    IF \E i \in 1..Len(prods) : ToString(prods[i].id) = id
    THEN LET i == CHOOSE j \in 1..Len(prods) :
                    /\ ToString(prods[j].id) = id
                    /\ \A k \in 1..(j - 1) : ToString(prods[k].id) # id
         IN prods[i].title
    ELSE Undefined

\* filter(Boolean): undefined and the empty string are dropped
Falsy(t) == t \in {Undefined, ""}

\* the titles of the selected products in product-list order
SelectedProductTitlesInListOrder(prods, ids) ==
    LET kept == SelectSeq(prods, LAMBDA p : Includes(ids, ToString(p.id)))
    IN [i \in 1..Len(kept) |-> kept[i].title]

\* about.tsx onSubmit: selectedProductTitles
SelectedProductTitles(prods, ids) ==
    SelectSeq([i \in 1..Len(ids) |-> TitleOf(prods, ids[i])], LAMBDA t : ~Falsy(t))

\* the page's onValueChange prop, called with value:
\* home: setSelectedProducts; about: handleValueChange
OnValueChange(value) ==
    /\ selectedProducts' = value
    /\ errors' = IF page = "about" THEN Validate(value) ELSE errors
    /\ queued' = IF page = "about" THEN [kind |-> "map", arg |-> value] ELSE NoQueue
    /\ calls' = <<value>>

NoEvent ==
    [op |-> "none", id |-> Undefined, before |-> <<>>, onOpen |-> FALSE,
     toasts |-> <<>>]

Event(op, id, onOpen, toasts) ==
    [op |-> op, id |-> id, before |-> selectedValues, onOpen |-> onOpen,
     toasts |-> toasts]

-----------------------------------------------------------------------------
(* What the widget renders *)

\* the option list (Select All and the items) is rendered in the panel
ListShown ==
    /\ isPopoverOpen
    /\ widgetSource = "part_001" => (~loading /\ Len(options) > 0)

\* a badge row cut one short of maxCount
BadgesCutShort ==
    SelectSeq(Slice(selectedValues, maxCount - 1),
              LAMBDA id : \E i \in 1..Len(options) : options[i].id = id)

\* the ids for which the trigger renders an item badge, in order
Badges ==
    SelectSeq(Slice(selectedValues, maxCount),
              LAMBDA id : \E i \in 1..Len(options) : options[i].id = id)

\* K of the "+K more" badge, 0 when it is not rendered
MoreCount ==
    IF Len(selectedValues) > maxCount THEN Len(selectedValues) - maxCount ELSE 0

-----------------------------------------------------------------------------
(* Widget handlers *)

handleToggleOption(id, op) ==
    LET newSelectedValues == NewSelectedValues(selectedValues, id) IN
    /\ selectedValues' = newSelectedValues
    /\ OnValueChange(newSelectedValues)
    /\ options' = FlipFlags(options, id)
    /\ ev' = Event(op, id, FALSE, <<>>)
    /\ dirty' = TRUE
    /\ UNCHANGED <<page, widgetSource, catalog, products, loading, pending,
                   isPopoverOpen>>

\* a clear that resets the widget state and does not tell the page
handleClearSilent(op) ==
    /\ selectedValues' = <<>>
    /\ calls' = <<>>
    /\ options' = SetAllFlags(options, "false")
    /\ ev' = Event(op, Undefined, FALSE, <<>>)
    /\ dirty' = TRUE
    /\ UNCHANGED <<page, widgetSource, catalog, products, loading, pending,
                   isPopoverOpen, selectedProducts, errors, queued>>

handleClear(op) ==
    /\ selectedValues' = <<>>
    /\ OnValueChange(<<>>)
    /\ options' = SetAllFlags(options, "false")
    /\ ev' = Event(op, Undefined, FALSE, <<>>)
    /\ dirty' = TRUE
    /\ UNCHANGED <<page, widgetSource, catalog, products, loading, pending,
                   isPopoverOpen>>

handleToggleAll ==
    IF AllChecked(options)
    THEN handleClear("selectAll")
    ELSE LET allIds == OptionIds(options) IN
         /\ selectedValues' = allIds
         /\ OnValueChange(allIds)
         /\ options' = SetAllFlags(options, "true")
         /\ ev' = Event("selectAll", Undefined, FALSE, <<>>)
         /\ dirty' = TRUE
         /\ UNCHANGED <<page, widgetSource, catalog, products, loading, pending,
                        isPopoverOpen>>

-----------------------------------------------------------------------------
(* User events on the widget *)

\* CommandItem onSelect of the i-th option
SelectItem(i) ==
    /\ ~dirty
    /\ ListShown
    /\ i \in 1..Len(options)
    /\ handleToggleOption(options[i].id, "toggle")
    /\ UNCHANGED log

\* XCircle onClick of the k-th item badge
RemoveBadge(k) ==
    /\ ~dirty
    /\ k \in 1..Len(selectedValues)
    /\ k <= maxCount
    /\ \E i \in 1..Len(options) : options[i].id = selectedValues[k]
    /\ handleToggleOption(selectedValues[k], "badge")
    /\ UNCHANGED log

\* CommandItem onSelect of Select All
SelectAll ==
    /\ ~dirty
    /\ ListShown
    /\ handleToggleAll
    /\ UNCHANGED log

\* Clear All button
ClearAll ==
    /\ ~dirty
    /\ isPopoverOpen
    /\ handleClear("clear")
    /\ UNCHANGED log

\* an open whose fetchProducts has no "already have products" guard
OpenAlwaysFetches ==
    /\ ~dirty
    /\ ~isPopoverOpen
    /\ pending < MaxPending
    /\ loading' = TRUE
    /\ pending' = pending + 1
    /\ isPopoverOpen' = TRUE
    /\ ev' = Event("open", Undefined, TRUE, <<>>)
    /\ calls' = <<>>
    /\ dirty' = TRUE
    /\ UNCHANGED <<page, widgetSource, catalog, products, options, queued,
                   selectedProducts, errors, selectedValues, log>>

\* Popover onOpenChange(true): onOpen() is the page's fetchProducts
Open ==
    /\ ~dirty
    /\ ~isPopoverOpen
    /\ (Len(products) = 0) => (pending < MaxPending)
    /\ loading' = IF Len(products) > 0 THEN loading ELSE TRUE
    /\ pending' = IF Len(products) > 0 THEN pending ELSE pending + 1
    /\ isPopoverOpen' = TRUE
    /\ ev' = Event("open", Undefined, TRUE, <<>>)
    /\ calls' = <<>>
    /\ dirty' = TRUE
    /\ UNCHANGED <<page, widgetSource, catalog, products, options, queued,
                   selectedProducts, errors, selectedValues, log>>

\* Popover onOpenChange(false) and the Close button
Close ==
    /\ ~dirty
    /\ isPopoverOpen
    /\ isPopoverOpen' = FALSE
    /\ ev' = Event("close", Undefined, FALSE, <<>>)
    /\ calls' = <<>>
    /\ dirty' = TRUE
    /\ UNCHANGED <<page, widgetSource, catalog, products, options, queued,
                   selectedProducts, loading, errors, pending, selectedValues, log>>

-----------------------------------------------------------------------------
(* Page events *)

\* fetchProducts after the await: the response arrived
FetchSuccess ==
    /\ ~dirty
    /\ pending > 0
    /\ products' = catalog
    /\ queued' = IF page = "about"
                 THEN [kind |-> "set", arg |-> AboutOptions(catalog)]
                 ELSE NoQueue
    /\ selectedProducts' = IF page = "about"
                           THEN OptionIds(AboutOptions(catalog))
                           ELSE selectedProducts
    /\ errors' = IF page = "about"
                 THEN Validate(OptionIds(AboutOptions(catalog)))
                 ELSE errors
    /\ loading' = FALSE
    /\ pending' = pending - 1
    /\ ev' = Event("fetchSuccess", Undefined, FALSE, <<>>)
    /\ calls' = <<>>
    /\ dirty' = TRUE
    /\ UNCHANGED <<page, widgetSource, catalog, options, selectedValues,
                   isPopoverOpen, log>>

\* a failure path that also resets the page's selection
FetchFailureResets ==
    /\ ~dirty
    /\ pending > 0
    /\ loading' = FALSE
    /\ pending' = pending - 1
    /\ selectedProducts' = <<>>
    /\ ev' = Event("fetchFailure", Undefined, FALSE, <<>>)
    /\ calls' = <<>>
    /\ dirty' = TRUE
    /\ UNCHANGED <<page, widgetSource, catalog, products, options, queued,
                   errors, selectedValues, isPopoverOpen, log>>

\* a failure path without the finally block
FetchFailureKeepsLoading ==
    /\ ~dirty
    /\ pending > 0
    /\ pending' = pending - 1
    /\ ev' = Event("fetchFailure", Undefined, FALSE, <<>>)
    /\ calls' = <<>>
    /\ dirty' = TRUE
    /\ UNCHANGED <<page, widgetSource, catalog, products, options, queued,
                   selectedProducts, loading, errors, selectedValues,
                   isPopoverOpen, log>>

\* fetchProducts after the await: fetch or json() threw
FetchFailure ==
    /\ ~dirty
    /\ pending > 0
    /\ loading' = FALSE
    /\ pending' = pending - 1
    /\ ev' = Event("fetchFailure", Undefined, FALSE, <<>>)
    /\ calls' = <<>>
    /\ dirty' = TRUE
    /\ UNCHANGED <<page, widgetSource, catalog, products, options, queued,
                   selectedProducts, errors, selectedValues, isPopoverOpen, log>>

\* about.tsx: the form's onSubmit = handleSubmit(callback)
Submit ==
    /\ ~dirty
    /\ page = "about"
    /\ errors' = Validate(selectedProducts)
    /\ calls' = <<>>
    /\ ev' = Event("submit", Undefined, FALSE,
                   IF Validate(selectedProducts) = NoError
                   THEN <<SelectedProductTitles(products, selectedProducts)>>
                   ELSE <<>>)
    /\ dirty' = TRUE
    /\ UNCHANGED <<page, widgetSource, catalog, products, options, queued,
                   selectedProducts, loading, pending, selectedValues,
                   isPopoverOpen, log>>

\* The re-render after an event: the page's state updaters run, the widget
\* receives the page's options, and the widget's effect on [value] runs.
\* a re-render whose widget has no effect on [value]
RenderWithoutSync ==
    /\ dirty
    /\ options' = IF page = "home" THEN HomeOptions(products)
                  ELSE IF queued.kind = "map" THEN MarkSelected(options, queued.arg)
                  ELSE IF queued.kind = "set" THEN queued.arg
                  ELSE options
    /\ queued' = NoQueue
    /\ dirty' = FALSE
    /\ ev' = NoEvent
    /\ calls' = <<>>
    /\ UNCHANGED <<page, widgetSource, catalog, products, selectedProducts,
                   loading, errors, pending, isPopoverOpen, selectedValues, log>>

Render ==
    /\ dirty
    /\ options' = IF page = "home" THEN HomeOptions(products)
                  ELSE IF queued.kind = "map" THEN MarkSelected(options, queued.arg)
                  ELSE IF queued.kind = "set" THEN queued.arg
                  ELSE options
    /\ selectedValues' = IF page = "about" /\ queued.kind # "none"
                         THEN selectedProducts
                         ELSE selectedValues
    /\ queued' = NoQueue
    /\ dirty' = FALSE
    /\ ev' = NoEvent
    /\ calls' = <<>>
    /\ UNCHANGED <<page, widgetSource, catalog, products, selectedProducts,
                   loading, errors, pending, isPopoverOpen, log>>

-----------------------------------------------------------------------------

Init ==
    /\ page \in {"home", "about"}
    /\ widgetSource \in {"part_000", "part_001"}
    /\ catalog \in {Catalog(k) : k \in 0..MaxProducts}
    /\ products = <<>>
    /\ options = <<>>
    /\ queued = NoQueue
    /\ selectedProducts = <<>>
    /\ loading = FALSE
    /\ errors = NoError
    /\ pending = 0
    /\ selectedValues = <<>>
    /\ isPopoverOpen = FALSE
    /\ dirty = FALSE
    /\ ev = NoEvent
    /\ calls = <<>>
    /\ log = <<>>

Next ==
    \/ \E i \in 1..MaxProducts : SelectItem(i)
    \/ \E k \in 1..maxCount : RemoveBadge(k)
    \/ SelectAll
    \/ ClearAll
    \/ Open
    \/ Close
    \/ FetchSuccess
    \/ FetchFailure
    \/ Submit
    \/ Render

Spec == Init /\ [][Next]_vars

-----------------------------------------------------------------------------
(* Toggle sequences on a fixed option list: the page has loaded a non-empty *)
(* catalogue, the panel is open and the selection is empty (home: after the *)
(* first response; about: after the first response and Clear All).  Every   *)
(* toggle is logged.                                                        *)

ToggleInit ==
    /\ page \in {"home", "about"}
    /\ widgetSource \in {"part_000", "part_001"}
    /\ catalog \in {Catalog(k) : k \in 1..MaxProducts}
    /\ products = catalog
    /\ options = IF page = "home" THEN HomeOptions(catalog)
                 ELSE MarkSelected(SetAllFlags(AboutOptions(catalog), "false"), <<>>)
    /\ queued = NoQueue
    /\ selectedProducts = <<>>
    /\ loading = FALSE
    /\ errors = IF page = "home" THEN NoError ELSE RequiredMessage
    /\ pending = 0
    /\ selectedValues = <<>>
    /\ isPopoverOpen = TRUE
    /\ dirty = FALSE
    /\ ev = NoEvent
    /\ calls = <<>>
    /\ log = <<>>

LoggedSelectItem(i) ==
    /\ Len(log) < MaxToggles
    /\ ~dirty
    /\ ListShown
    /\ i \in 1..Len(options)
    /\ handleToggleOption(options[i].id, "toggle")
    /\ log' = Append(log, options[i].id)

LoggedRemoveBadge(k) ==
    /\ Len(log) < MaxToggles
    /\ ~dirty
    /\ k \in 1..Len(selectedValues)
    /\ k <= maxCount
    /\ \E i \in 1..Len(options) : options[i].id = selectedValues[k]
    /\ handleToggleOption(selectedValues[k], "badge")
    /\ log' = Append(log, selectedValues[k])

ToggleNext ==
    \/ \E i \in 1..MaxProducts : LoggedSelectItem(i)
    \/ \E k \in 1..maxCount : LoggedRemoveBadge(k)
    \/ Render

ToggleSpec == ToggleInit /\ [][ToggleNext]_vars

-----------------------------------------------------------------------------
(* Properties *)

\* the state right after a handler ran, before the re-render
Handled(ops) == dirty /\ ev.op \in ops

\* the event a step belongs to: a handler step starts it, the Render step
\* ends it
StepOp == IF dirty THEN ev.op ELSE ev'.op

\* s without every occurrence of x, the others in their order
RECURSIVE Without(_, _)
Without(s, x) ==
    IF s = <<>> THEN <<>>
    ELSE IF Head(s) = x THEN Without(Tail(s), x)
    ELSE <<Head(s)>> \o Without(Tail(s), x)

Elems(s) == {s[i] : i \in 1..Len(s)}

\* C1: a toggle of id, from the option list or from a badge, removes id from
\* the selection when it is there (the others keep their order) and appends
\* it at the end otherwise; onValueChange is called exactly once, with the
\* new selection.
C1_ToggleSingleItem ==
    Handled({"toggle", "badge"}) =>
        /\ selectedValues = IF ev.id \in Elems(ev.before)
                            THEN Without(ev.before, ev.id)
                            ELSE ev.before \o <<ev.id>>
        /\ Len(calls) = 1
        /\ calls[1] = selectedValues
        /\ selectedProducts = selectedValues

\* a badge removal of the middle one of three selected ids, and an append
\* after two selected ids, were both possible from the state before
C1_Witness ==
    /\ Handled({"badge"})
    /\ Len(ev.before) = 3
    /\ ev.id = ev.before[2]
    /\ selectedValues = <<ev.before[1], ev.before[3]>>
    /\ ev.before[1] # ev.before[3]

\* C3 (as claimed): Select All empties the selection when every listed
\* option's id is selected, and makes it the list of all option ids when some
\* but not all are selected; onValueChange is called with the result.
C3_SelectAllByMembership ==
    Handled({"selectAll"}) =>
        LET ids == OptionIds(options)
            all == \A i \in 1..Len(ids) : ids[i] \in Elems(ev.before)
            some == \E i \in 1..Len(ids) : ids[i] \in Elems(ev.before)
        IN /\ all => selectedValues = <<>>
           /\ (some /\ ~all) => selectedValues = ids
           /\ calls = <<selectedValues>>

\* C4: Clear leaves the selection empty, whatever it was before, and calls
\* onValueChange with the empty sequence.
C4_ClearEmpties ==
    Handled({"clear"}) =>
        /\ selectedValues = <<>>
        /\ selectedProducts = <<>>
        /\ calls = <<(<<>>)>>

\* Clear ran on a selection of two or more ids
C4_Witness ==
    /\ Handled({"clear"})
    /\ Len(ev.before) >= 2
    /\ selectedValues = <<>>

\* C5 (as claimed): a toggle, clear or select-all leaves every option object
\* the caller passed in as it was.
C5_OptionsNotMutated ==
    [][(~dirty /\ dirty' /\ ev'.op \in {"toggle", "badge", "clear", "selectAll"})
        => options' = options]_vars

\* C6: once the product list is non-empty it stays non-empty and no step
\* issues another request; an open still calls onOpen, which returns
\* without fetching and without touching the loading flag.
C6_NoFetchOnceLoaded ==
    [][Len(products) > 0 =>
        /\ Len(products') > 0
        /\ pending' <= pending
        /\ (~dirty /\ dirty' /\ ev'.op = "open") =>
                (ev'.onOpen /\ pending' = pending /\ loading' = loading)]_vars

\* the panel was reopened while the product list was loaded
C6_Witness ==
    /\ Handled({"open"})
    /\ ev.onOpen
    /\ Len(products) > 0
    /\ pending = 0
    /\ ~loading

SelectionOps == {"toggle", "badge", "clear", "selectAll"}

\* C7 (as claimed): an event other than toggle, clear and select-all (and the
\* re-render that follows it) changes neither the page's nor the widget's
\* selection.
C7_OnlySelectionOpsChangeSelection ==
    [][StepOp \notin SelectionOps =>
        (selectedProducts' = selectedProducts /\ selectedValues' = selectedValues)]_vars

\* C7 (amended): as claimed, except for a successful fetch on the about page,
\* which sets the page's selection to the ids of all fetched products (the
\* re-render then copies it into the widget).
C7_SelectionChangedBySelectionOpsAndAboutFetch ==
    [][/\ (StepOp \notin SelectionOps /\ ~(page = "about" /\ StepOp = "fetchSuccess"))
            => (selectedProducts' = selectedProducts /\ selectedValues' = selectedValues)
       /\ (page = "about" /\ StepOp = "fetchSuccess" /\ ~dirty)
            => (selectedProducts' = [i \in 1..Len(products') |-> ToString(products'[i].id)]
                /\ selectedValues' = selectedValues)
       /\ (page = "about" /\ StepOp = "fetchSuccess" /\ dirty)
            => (selectedProducts' = selectedProducts /\ selectedValues' = selectedProducts)]_vars

\* on the about page a second response arrived after the user had changed the
\* selection, and replaced it
C7_Witness ==
    /\ page = "about"
    /\ Handled({"fetchSuccess"})
    /\ selectedValues # <<>>
    /\ selectedValues # selectedProducts
    /\ Len(selectedProducts) >= 2

\* C8 (as claimed): with an empty option list or loading true, Select All and
\* Clear All leave the selection as it was and do not call onValueChange.
C8_BulkActionsNoOpWhenEmptyOrLoading ==
    (Handled({"clear", "selectAll"}) /\ (Len(options) = 0 \/ loading)) =>
        /\ selectedValues = ev.before
        /\ selectedProducts = ev.before
        /\ calls = <<>>

Min(a, b) == IF a <= b THEN a ELSE b

\* C9: for n selected ids and maxCount m the trigger renders exactly
\* min(n, m) item badges, for the first min(n, m) selected ids in selection
\* order, and a "+K more" badge with K = n - m exactly when n > m.
C9_BadgeRow ==
    LET n == Len(selectedValues) IN
    /\ Len(Badges) = Min(n, maxCount)
    /\ \A k \in 1..Min(n, maxCount) : Badges[k] = selectedValues[k]
    /\ (MoreCount > 0) <=> (n > maxCount)
    /\ (n > maxCount) => (MoreCount = n - maxCount)

\* more ids are selected than maxCount
C9_Witness ==
    /\ Len(selectedValues) > maxCount
    /\ Len(Badges) = maxCount
    /\ MoreCount = Len(selectedValues) - maxCount
    /\ page = "about"
    /\ selectedValues[1] # "1"

\* the title of the product with the given id string
TitleById(id) ==
    LET n == CHOOSE m \in 1..Len(Titles) : ToString(m) = id IN Titles[n]

\* C10: on the about page a submit with an empty selection does not run the
\* confirmation and sets the "Please select at least one product." error; a
\* submit with a non-empty selection runs the confirmation once, with the
\* titles of the selected ids in selection order.
C10_Submit ==
    Handled({"submit"}) =>
        /\ page = "about"
        /\ (selectedProducts = <<>>) =>
                (ev.toasts = <<>> /\ errors = "Please select at least one product.")
        /\ (selectedProducts # <<>>) =>
                /\ Len(ev.toasts) = 1
                /\ ev.toasts[1] = [i \in 1..Len(selectedProducts) |->
                                        TitleById(selectedProducts[i])]
                /\ errors = NoError

\* a submit of two or more ids selected in another order than the list's
C10_Witness ==
    /\ Handled({"submit"})
    /\ Len(selectedProducts) >= 2
    /\ selectedProducts[1] = "2"
    /\ selectedProducts[2] = "1"
    /\ Len(ev.toasts) = 1

\* the elements s[i] with i in I, in index order
Pick(s, I) ==
    LET idx == SelectSeq([i \in 1..Len(s) |-> i], LAMBDA i : i \in I)
    IN [k \in 1..Len(idx) |-> s[idx[k]]]

ToggledOddTimes(s, i) == Cardinality({j \in 1..Len(s) : s[j] = s[i]}) % 2 = 1

\* C2 (as claimed): after a sequence of toggles from the empty selection the
\* selection lists the ids toggled an odd number of times, in the order of
\* their first toggles.
C2_OddTogglesInFirstToggleOrder ==
    selectedValues =
        Pick(log, {i \in 1..Len(log) : /\ ToggledOddTimes(log, i)
                                        /\ \A j \in 1..(i - 1) : log[j] # log[i]})

\* C2 (amended): ... in the order of their last toggles.
C2_OddTogglesInLastToggleOrder ==
    selectedValues =
        Pick(log, {i \in 1..Len(log) : /\ ToggledOddTimes(log, i)
                                        /\ \A j \in (i + 1)..Len(log) : log[j] # log[i]})

\* a was toggled three times and b once in between: b comes first
C2_Witness ==
    /\ Len(log) = 4
    /\ log[1] # log[2]
    /\ log[3] = log[1]
    /\ log[4] = log[1]
    /\ selectedValues = <<log[2], log[1]>>

\* C11 (as claimed): no two product requests of one page instance are ever
\* awaited at the same time.
C11_AtMostOneFetchInFlight == pending <= 1

\* C12 (as claimed): whenever a product request is awaited, the page's loading
\* flag is true.
C12_PendingImpliesLoading == pending > 0 => loading

\* C13 (as claimed): once an event is fully processed, every id in the
\* selection (the page's and the widget's) is the id of exactly one option of
\* the current option list.
C13_NoDanglingReferences ==
    ~dirty =>
        \A id \in Elems(selectedProducts) \cup Elems(selectedValues) :
            Cardinality({i \in 1..Len(options) : options[i].id = id}) = 1

\* C14: a failed request is caught: the loading flag is false afterwards, the
\* product list, the option list and both selections are as before, no
\* onValueChange call is made, and the number of awaited requests grows only
\* when the user opens the panel.
C14_FetchFailureLeavesState ==
    [][/\ StepOp = "fetchFailure" =>
            /\ loading' = FALSE
            /\ products' = products
            /\ options' = options
            /\ selectedProducts' = selectedProducts
            /\ selectedValues' = selectedValues
            /\ errors' = errors
            /\ calls' = <<>>
            /\ pending' <= pending
       /\ pending' > pending => (~dirty /\ ev'.op = "open")]_vars

\* a request failed while the page held products and a selection
C14_Witness ==
    /\ Handled({"fetchFailure"})
    /\ ~loading
    /\ Len(products) >= 2
    /\ Len(selectedValues) >= 1
    /\ pending = 0

\* C15: once an event is fully processed the page's selection equals the
\* widget's, on the about page (value prop) and on the home page
\* (defaultValue prop), and on the about page each option's
\* isSelectedForProductBenefit flag tells whether its id is selected.
C15_PageWidgetAgreement ==
    ~dirty =>
        /\ selectedProducts = selectedValues
        /\ page = "about" =>
                \A i \in 1..Len(options) :
                    Truthy(options[i].isSelectedForProductBenefit)
                        <=> options[i].id \in Elems(selectedProducts)

\* the about page after a fetch and toggles: some ids selected, some not, in
\* another order than the list's
C15_Witness ==
    /\ ~dirty
    /\ page = "about"
    /\ Len(options) >= 3
    /\ Len(selectedValues) = 2
    /\ selectedValues[1] = "3"
    /\ selectedValues[2] = "1"
    /\ selectedProducts = selectedValues

=============================================================================
